---- MODULE Spec2Model ----
(***************************************************************************)
(* Model of the B2 storage adapter of caddy-tlsb2 (src/storage.go).        *)
(*                                                                         *)
(* State: the process environment, the result of NewB2Storage, the fields  *)
(* of b2Storage (mdMu, md, mdLoaded), the bucket the adapter talks to, and *)
(* for every calling goroutine the position inside the operation it runs.  *)
(* The B2 client and encoding/json are external: a call to them is a       *)
(* choice over the results they can give for the bucket's content.         *)
(* An operation that reaches panic("not implemented") ends with the result *)
(* "panic": the caller recovers it, or the process ends (crashed).         *)
(***************************************************************************)
EXTENDS Naturals, Sequences, FiniteSets, TLC

\* ---------------------------------------------------------------------
\* Bounds
\* ---------------------------------------------------------------------
\* number of goroutines that call into one adapter
NumThreads == 2

Threads == 1..NumThreads
NoThread == 0

Domains == {"d1", "d2"}
Emails == {"e1", "e2"}
LockNames == {"x"}

\* payloads handed to StoreSite / StoreUser
SiteDatas == {[Cert |-> "cert", Key |-> "key", Meta |-> "meta"]}
UserDatas == {[Reg |-> "reg", Key |-> "key"]}
NoData == [none |-> "none"]

\* ---------------------------------------------------------------------
\* Environment variables and os.Getenv
\* ---------------------------------------------------------------------
Unset == "<unset>"
EnvValues == {Unset, "", "v"}

\* os.Getenv: the value, or "" when the variable is not present
Getenv(e, name) == IF e[name] = Unset THEN "" ELSE e[name]

EnvNameAccountID == "B2_ACCOUNT_ID"
EnvNameAccountKey == "B2_ACCOUNT_KEY"
EnvNameBucket == "B2_BUCKET"
EnvNames == {EnvNameAccountID, EnvNameAccountKey, EnvNameBucket}

\* ---------------------------------------------------------------------
\* Errors
\* ---------------------------------------------------------------------
Nil == [kind |-> "nil"]
\* an error of the b2 client; status 404 is its not-found answer
B2Err(status) == [kind |-> "b2", status |-> status]
\* an error of encoding/json
JsonErr(what) == [kind |-> "json", what |-> what]
\* errors.New(...) of NewB2Storage
ConfigErr(what) == [kind |-> "errors.New", what |-> what]
\* &Error{op: op, err: err}
Error(op, err) == [kind |-> "Error", op |-> op, err |-> err]

\* the error at the bottom of a chain of Error values
RECURSIVE RootCause(_)
RootCause(e) == IF e.kind = "Error" THEN RootCause(e.err) ELSE e

\* ---------------------------------------------------------------------
\* The bucket: the index document <prefix>/metadata.json and the file ids
\* ---------------------------------------------------------------------
EmptyMap == [x \in {} |-> "id1"]
Missing == [t |-> "missing", m |-> EmptyMap]
BadType == [t |-> "bad", m |-> EmptyMap]
MapField(m) == [t |-> "map", m |-> m]

DocAbsent == [kind |-> "absent", domainNames |-> Missing, users |-> Missing]
DocCorrupt == [kind |-> "syntax", domainNames |-> Missing, users |-> Missing]
DocJSON(dn, us) == [kind |-> "json", domainNames |-> dn, users |-> us]

\* {}, a document with a users field of the wrong type, and a full one
DocEmpty == DocJSON(Missing, Missing)
DocBadUsers == DocJSON(MapField([x \in {"d1"} |-> "id1"]), BadType)
DocIndex == DocJSON(MapField([x \in {"d1"} |-> "id1"]),
                    MapField([x \in {"e1"} |-> "id2"]))

\* the buckets an adapter is started on: [doc, files]
Buckets ==
    {[doc |-> DocAbsent, files |-> {}],
     [doc |-> DocCorrupt, files |-> {}],
     [doc |-> DocEmpty, files |-> {}],
     [doc |-> DocBadUsers, files |-> {"id1"}],
     [doc |-> DocIndex, files |-> {"id1", "id2"}],
     [doc |-> DocIndex, files |-> {"id2"}]}

\* ---------------------------------------------------------------------
\* storageMetadata and json.Decoder.Decode into it
\* ---------------------------------------------------------------------
ZeroMetadata == [DomainNames |-> EmptyMap, Users |-> EmptyMap]

\* decoding a JSON object into a map keeps the entries the map has and
\* sets the ones of the document
Merge(old, new) ==
    [k \in (DOMAIN old) \cup (DOMAIN new) |->
        IF k \in DOMAIN new THEN new[k] ELSE old[k]]

DecodeField(old, f) == IF f.t = "map" THEN Merge(old, f.m) ELSE old

\* the value of s.md after dec.Decode(&s.md)
DecodeInto(m, doc) ==
    IF doc.kind # "json" THEN m
    ELSE [DomainNames |-> DecodeField(m.DomainNames, doc.domainNames),
          Users |-> DecodeField(m.Users, doc.users)]

\* the error of dec.Decode(&s.md)
DecodeErr(doc) ==
    IF doc.kind # "json" THEN JsonErr("syntax")
    ELSE IF doc.domainNames.t = "bad" \/ doc.users.t = "bad"
         THEN JsonErr("type")
         ELSE Nil


\* ---------------------------------------------------------------------
\* State
\* ---------------------------------------------------------------------
VARIABLES
    env,        \* the process environment: name -> value or Unset
    ctor,       \* what NewB2Storage returned: [called, storage, err]
    netCalls,   \* the client calls NewB2Storage has made (b2.NewClient)
    bucket,     \* the bucket: [doc, files]
    mdMu,       \* b2Storage.mdMu: the goroutine that holds it, or NoThread
    md,         \* b2Storage.md
    mdLoaded,   \* b2Storage.mdLoaded
    pc,         \* per goroutine: where it is in the operation it runs
    call,       \* per goroutine: the operation it runs, [op, arg, data]
    lmErr,      \* per goroutine: what its loadMetadata call returned
    fileID,     \* per goroutine: the local fileID of SiteExists
    api,        \* per goroutine: the bucket calls issued by its operation,
                \* in the order they were made
    hist,       \* the last two completed operations, oldest first; of the
                \* older one only the call and its result are kept
    crashed     \* an unrecovered panic has ended the process

vars == <<env, ctor, netCalls, bucket, mdMu, md, mdLoaded, pc, call, lmErr,
          fileID, api, hist, crashed>>

adapterVars == <<mdMu, md, mdLoaded>>

NoCall == [op |-> "none", arg |-> "", data |-> NoData]
NoRet == [op |-> "none", arg |-> "", data |-> NoData, res |-> "none",
          val |-> "none", rec |-> NoData, err |-> Nil, api |-> <<>>]

\* the record of a completed operation of goroutine t
Ret(t, res, val, err) ==
    [op |-> call[t].op, arg |-> call[t].arg, data |-> call[t].data,
     res |-> res, val |-> val, rec |-> NoData, err |-> err, api |-> api[t]]

\* what is kept of an operation once a later one has completed
Summary(r) == [r EXCEPT !.err = Nil, !.api = <<>>]

Prev == hist[1]
Last == hist[2]

Init ==
    /\ env \in [EnvNames -> EnvValues]
    /\ ctor = [called |-> FALSE, storage |-> FALSE, err |-> Nil]
    /\ netCalls = {}
    /\ bucket \in Buckets
    /\ mdMu = NoThread
    /\ md = ZeroMetadata
    /\ mdLoaded = FALSE
    /\ pc = [t \in Threads |-> "idle"]
    /\ call = [t \in Threads |-> NoCall]
    /\ lmErr = [t \in Threads |-> Nil]
    /\ fileID = [t \in Threads |-> ""]
    /\ api = [t \in Threads |-> <<>>]
    /\ hist = <<NoRet, NoRet>>
    /\ crashed = FALSE

\* ---------------------------------------------------------------------
\* NewB2Storage
\* ---------------------------------------------------------------------
\* NewB2StorageResult with the test of bucketName left out
NewB2StorageResult_NoBucketCheck(e, clientErr) ==
    IF Getenv(e, EnvNameAccountID) = ""
    THEN [storage |-> FALSE, err |-> ConfigErr("no account ID set"), net |-> {}]
    ELSE IF Getenv(e, EnvNameAccountKey) = ""
    THEN [storage |-> FALSE, err |-> ConfigErr("no account key set"), net |-> {}]
    ELSE IF clientErr # Nil
    THEN [storage |-> FALSE, err |-> clientErr, net |-> {"b2.NewClient"}]
    ELSE [storage |-> TRUE, err |-> Nil, net |-> {"b2.NewClient"}]

\* The outcome of NewB2Storage for environment e when b2.NewClient, if it
\* is reached, answers clientErr: [storage, err, net]
NewB2StorageResult(e, clientErr) ==
    IF Getenv(e, EnvNameAccountID) = ""
    THEN [storage |-> FALSE, err |-> ConfigErr("no account ID set"), net |-> {}]
    ELSE IF Getenv(e, EnvNameAccountKey) = ""
    THEN [storage |-> FALSE, err |-> ConfigErr("no account key set"), net |-> {}]
    ELSE IF Getenv(e, EnvNameBucket) = ""
    THEN [storage |-> FALSE, err |-> ConfigErr("no bucket set"), net |-> {}]
    ELSE IF clientErr # Nil
    THEN [storage |-> FALSE, err |-> clientErr, net |-> {"b2.NewClient"}]
    ELSE [storage |-> TRUE, err |-> Nil, net |-> {"b2.NewClient"}]

NewB2Storage ==
    /\ ~ctor.called
    /\ \E clientErr \in {Nil, B2Err("failure")} :
         LET r == NewB2StorageResult(env, clientErr) IN
           /\ ctor' = [called |-> TRUE, storage |-> r.storage, err |-> r.err]
           /\ netCalls' = r.net
    /\ UNCHANGED <<env, bucket, mdMu, md, mdLoaded, pc, call, lmErr, fileID,
                   api, hist, crashed>>

\* a goroutine can call a method of the adapter NewB2Storage returned
CanCall(t) == ctor.storage /\ ~crashed /\ pc[t] = "idle"
Running(t, at) == ~crashed /\ pc[t] = at

\* the operation of goroutine t ends with record r; its locals are gone
Complete(t, r) ==
    /\ hist' = <<Summary(hist[2]), r>>
    /\ pc' = [pc EXCEPT ![t] = "idle"]
    /\ call' = [call EXCEPT ![t] = NoCall]
    /\ lmErr' = [lmErr EXCEPT ![t] = Nil]
    /\ fileID' = [fileID EXCEPT ![t] = ""]
    /\ api' = [api EXCEPT ![t] = <<>>]

\* ---------------------------------------------------------------------
\* The B2 client, as the adapter sees it
\* ---------------------------------------------------------------------
\* what DownloadFileByName(bucket, mkpath("metadata.json")) can return:
\* a 404 when the document is not there, the reader otherwise, and a
\* failure of the service or the network in either case
DownloadResults(b) ==
    {B2Err("failure")} \cup
        (IF b.doc.kind = "absent" THEN {B2Err("404")} ELSE {Nil})

\* what GetFileInfoByID(id) can return
FileInfoResults(b, id) ==
    {B2Err("failure")} \cup (IF id \in b.files THEN {Nil} ELSE {B2Err("404")})

\* ---------------------------------------------------------------------
\* SiteExists, with the loadMetadata call it starts with
\* ---------------------------------------------------------------------
CallSiteExists(t) ==
    /\ CanCall(t)
    /\ \E d \in Domains :
         call' = [call EXCEPT ![t] = [op |-> "SiteExists", arg |-> d, data |-> NoData]]
    /\ pc' = [pc EXCEPT ![t] = "lmLock"]
    /\ api' = [api EXCEPT ![t] = <<>>]
    /\ lmErr' = [lmErr EXCEPT ![t] = Nil]
    /\ fileID' = [fileID EXCEPT ![t] = ""]
    /\ UNCHANGED <<env, ctor, netCalls, bucket, mdMu, md, mdLoaded, hist, crashed>>

\* lmLock without s.mdMu.Lock(): the test of s.mdLoaded is made at once
lmLock_NoMutex(t) ==
    /\ Running(t, "lmLock")
    /\ IF mdLoaded
       THEN /\ lmErr' = [lmErr EXCEPT ![t] = Nil]
            /\ pc' = [pc EXCEPT ![t] = "seLoaded"]
            /\ UNCHANGED mdMu
       ELSE /\ mdMu' = t
            /\ pc' = [pc EXCEPT ![t] = "lmDownload"]
            /\ UNCHANGED lmErr
    /\ UNCHANGED <<env, ctor, netCalls, bucket, md, mdLoaded, call, fileID,
                   api, hist, crashed>>

\* loadMetadata: s.mdMu.Lock(), then the test of s.mdLoaded; when the
\* index is loaded the deferred Unlock runs and nil is returned
lmLock(t) ==
    /\ Running(t, "lmLock")
    /\ mdMu = NoThread
    /\ IF mdLoaded
       THEN /\ mdMu' = NoThread
            /\ lmErr' = [lmErr EXCEPT ![t] = Nil]
            /\ pc' = [pc EXCEPT ![t] = "seLoaded"]
       ELSE /\ mdMu' = t
            /\ pc' = [pc EXCEPT ![t] = "lmDownload"]
            /\ UNCHANGED lmErr
    /\ UNCHANGED <<env, ctor, netCalls, bucket, md, mdLoaded, call, fileID,
                   api, hist, crashed>>

\* lmDownload without the deferred Unlock: the return on a failed
\* download leaves s.mdMu locked
lmDownload_NoUnlock(t) ==
    /\ Running(t, "lmDownload")
    /\ api' = [api EXCEPT ![t] = Append(@, "DownloadFileByName")]
    /\ \E err \in DownloadResults(bucket) :
         IF err # Nil
         THEN /\ lmErr' = [lmErr EXCEPT ![t] = Error("loadMetadata", err)]
              /\ pc' = [pc EXCEPT ![t] = "seLoaded"]
         ELSE /\ pc' = [pc EXCEPT ![t] = "lmDecode"]
              /\ UNCHANGED lmErr
    /\ UNCHANGED <<env, ctor, netCalls, bucket, mdMu, md, mdLoaded, call,
                   fileID, hist, crashed>>

\* loadMetadata: s.client.DownloadFileByName; an error is returned
\* wrapped, with the deferred Unlock
lmDownload(t) ==
    /\ Running(t, "lmDownload")
    /\ api' = [api EXCEPT ![t] = Append(@, "DownloadFileByName")]
    /\ \E err \in DownloadResults(bucket) :
         IF err # Nil
         THEN /\ lmErr' = [lmErr EXCEPT ![t] = Error("loadMetadata", err)]
              /\ mdMu' = NoThread
              /\ pc' = [pc EXCEPT ![t] = "seLoaded"]
         ELSE /\ pc' = [pc EXCEPT ![t] = "lmDecode"]
              /\ UNCHANGED <<lmErr, mdMu>>
    /\ UNCHANGED <<env, ctor, netCalls, bucket, md, mdLoaded, call, fileID,
                   hist, crashed>>

\* loadMetadataDecode with s.mdLoaded = true set before the decoder's
\* error is looked at
loadMetadataDecode_AlwaysLoaded(m, doc) ==
    IF DecodeErr(doc) # Nil
    THEN [md |-> DecodeInto(m, doc), mdLoaded |-> TRUE,
          err |-> Error("loadMetadata", DecodeErr(doc))]
    ELSE [md |-> DecodeInto(m, doc), mdLoaded |-> TRUE, err |-> Nil]

\* what loadMetadata leaves behind once the document is downloaded:
\* [md, mdLoaded, err]
loadMetadataDecode(m, doc) ==
    IF DecodeErr(doc) # Nil
    THEN [md |-> DecodeInto(m, doc), mdLoaded |-> FALSE,
          err |-> Error("loadMetadata", DecodeErr(doc))]
    ELSE [md |-> DecodeInto(m, doc), mdLoaded |-> TRUE, err |-> Nil]

\* loadMetadata: dec.Decode(&s.md), s.mdLoaded = true, deferred Unlock
lmDecode(t) ==
    /\ Running(t, "lmDecode")
    /\ LET r == loadMetadataDecode(md, bucket.doc) IN
         /\ md' = r.md
         /\ mdLoaded' = r.mdLoaded
         /\ lmErr' = [lmErr EXCEPT ![t] = r.err]
    /\ mdMu' = NoThread
    /\ pc' = [pc EXCEPT ![t] = "seLoaded"]
    /\ UNCHANGED <<env, ctor, netCalls, bucket, call, fileID, api, hist, crashed>>

\* SiteExistsLookup without the "if !ok" return: a domain with no entry
\* goes on to the lookup by id with the zero file id
SiteExistsLookup_AlwaysInfo(lerr, m, d) ==
    IF lerr # Nil
    THEN [done |-> TRUE, val |-> "false", err |-> Error("SiteExists", lerr),
          fileID |-> ""]
    ELSE [done |-> FALSE, val |-> "false", err |-> Nil,
          fileID |-> IF d \in DOMAIN m.DomainNames THEN m.DomainNames[d] ELSE ""]

\* what SiteExists does with the result of loadMetadata and the index:
\* [done, val, err, fileID]
SiteExistsLookup(lerr, m, d) ==
    IF lerr # Nil
    THEN [done |-> TRUE, val |-> "false", err |-> Error("SiteExists", lerr),
          fileID |-> ""]
    ELSE IF d \notin DOMAIN m.DomainNames
    THEN [done |-> TRUE, val |-> "false", err |-> Nil, fileID |-> ""]
    ELSE [done |-> FALSE, val |-> "false", err |-> Nil,
          fileID |-> m.DomainNames[d]]

\* SiteExists: the test of loadMetadata's error and s.md.DomainNames[domain]
seLoaded(t) ==
    /\ Running(t, "seLoaded")
    /\ LET r == SiteExistsLookup(lmErr[t], md, call[t].arg) IN
         IF r.done
         THEN Complete(t, Ret(t, IF r.err = Nil THEN "ok" ELSE "err", r.val, r.err))
         ELSE /\ fileID' = [fileID EXCEPT ![t] = r.fileID]
              /\ pc' = [pc EXCEPT ![t] = "seInfo"]
              /\ UNCHANGED <<hist, call, lmErr, api>>
    /\ UNCHANGED <<env, ctor, netCalls, bucket, mdMu, md, mdLoaded, crashed>>

\* SiteExists: s.client.GetFileInfoByID(fileID); an error is returned
\* wrapped, and past it the function panics
seInfo(t) ==
    /\ Running(t, "seInfo")
    /\ \E err \in FileInfoResults(bucket, fileID[t]) :
         LET issued == Append(api[t], "GetFileInfoByID") IN
         IF err # Nil
         THEN /\ Complete(t, [Ret(t, "err", "false", Error("SiteExists", err))
                                EXCEPT !.api = issued])
              /\ UNCHANGED crashed
         ELSE /\ Complete(t, [Ret(t, "panic", "none", Nil) EXCEPT !.api = issued])
              /\ crashed' \in BOOLEAN
    /\ UNCHANGED <<env, ctor, netCalls, bucket, mdMu, md, mdLoaded>>

\* ---------------------------------------------------------------------
\* The operations whose body is panic("not implemented")
\* ---------------------------------------------------------------------
\* goroutine t calls op(arg, data) and the call panics at once
NotImplemented(t, op, arg, data) ==
    /\ CanCall(t)
    /\ hist' = <<Summary(hist[2]),
                 [op |-> op, arg |-> arg, data |-> data, res |-> "panic",
                  val |-> "none", rec |-> NoData, err |-> Nil, api |-> <<>>]>>
    /\ crashed' \in BOOLEAN
    /\ UNCHANGED <<env, ctor, netCalls, bucket, mdMu, md, mdLoaded, pc, call,
                   lmErr, fileID, api>>

LoadSite(t) == \E d \in Domains : NotImplemented(t, "LoadSite", d, NoData)

StoreSite(t) ==
    \E d \in Domains, r \in SiteDatas : NotImplemented(t, "StoreSite", d, r)

DeleteSite(t) == \E d \in Domains : NotImplemented(t, "DeleteSite", d, NoData)

LoadUser(t) == \E e \in Emails : NotImplemented(t, "LoadUser", e, NoData)

StoreUser(t) ==
    \E e \in Emails, u \in UserDatas : NotImplemented(t, "StoreUser", e, u)

MostRecentUserEmail(t) == NotImplemented(t, "MostRecentUserEmail", "", NoData)

TryLock(t) == \E n \in LockNames : NotImplemented(t, "TryLock", n, NoData)

Unlock(t) == \E n \in LockNames : NotImplemented(t, "Unlock", n, NoData)

\* ---------------------------------------------------------------------
\* Specification
\* ---------------------------------------------------------------------
Next ==
    \/ NewB2Storage
    \/ \E t \in Threads : CallSiteExists(t)
    \/ \E t \in Threads : lmLock(t)
    \/ \E t \in Threads : lmDownload(t)
    \/ \E t \in Threads : lmDecode(t)
    \/ \E t \in Threads : seLoaded(t)
    \/ \E t \in Threads : seInfo(t)
    \/ \E t \in Threads : LoadSite(t)
    \/ \E t \in Threads : StoreSite(t)
    \/ \E t \in Threads : DeleteSite(t)
    \/ \E t \in Threads : LoadUser(t)
    \/ \E t \in Threads : StoreUser(t)
    \/ \E t \in Threads : MostRecentUserEmail(t)
    \/ \E t \in Threads : TryLock(t)
    \/ \E t \in Threads : Unlock(t)

Spec == Init /\ [][Next]_vars

\* Every goroutine that can take a step of loadMetadata or SiteExists takes
\* it: a call on the client returns, the scheduler runs a runnable
\* goroutine, and a goroutine waiting in Lock() is handed the mutex (a
\* sync.Mutex does not starve a waiter).
Fairness ==
    \A t \in Threads :
        /\ SF_vars(lmLock(t))
        /\ WF_vars(lmDownload(t))
        /\ WF_vars(lmDecode(t))
        /\ WF_vars(seLoaded(t))
        /\ WF_vars(seInfo(t))

FairSpec == Spec /\ Fairness

TypeOK ==
    /\ mdMu \in Threads \cup {NoThread}
    /\ mdLoaded \in BOOLEAN
    /\ crashed \in BOOLEAN


\* ---------------------------------------------------------------------
\* Properties
\* ---------------------------------------------------------------------
\* the bucket holds no object of the adapter's namespace
EmptyNamespace == bucket.doc = DocAbsent /\ bucket.files = {}

\* the operation returned to its caller: a value, or an error value
Returned(r) == r.res \in {"ok", "err"}

\* the operation failed only because the object store or the network did
ServiceFailure(e) == RootCause(e) = B2Err("failure")

\* how many times the operation with record r called c on the client
Calls(r, c) == Cardinality({i \in DOMAIN r.api : r.api[i] = c})

\* Last is the first operation completed on the adapter
First(op) == Prev.op = "none" /\ Last.op = op

\* Last is op on the name that Prev, a successful prevOp, was about
After(prevOp, op) ==
    /\ Prev.op = prevOp /\ Prev.res = "ok"
    /\ Last.op = op /\ Last.arg = Prev.arg

\* C1: over an initially empty namespace SiteExists(d) returns (false, nil)
\* before any StoreSite(d), (true, nil) right after a successful
\* StoreSite(d, r) and (false, nil) again right after a successful
\* DeleteSite(d), unless the object store itself fails.
C1_ExistenceToggling ==
    (EmptyNamespace /\ Last.op = "SiteExists" /\ ~ServiceFailure(Last.err)) =>
        /\ First("SiteExists") =>
             (Last.res = "ok" /\ Last.val = "false")
        /\ After("StoreSite", "SiteExists") =>
             (Last.res = "ok" /\ Last.val = "true")
        /\ After("DeleteSite", "SiteExists") =>
             (Last.res = "ok" /\ Last.val = "false")

\* C2: StoreSite(d, r) returns to its caller, and a LoadSite(d) that follows
\* a successful StoreSite(d, r) returns, without error, a record equal to r.
C2_SiteRoundTrip ==
    /\ Last.op = "StoreSite" => Returned(Last)
    /\ After("StoreSite", "LoadSite") =>
         (Last.res = "ok" /\ Last.rec = Prev.data)

\* C3: LoadUser(e) before any StoreUser(e) returns an error and a nil
\* record; after a successful StoreUser(e, u) it returns, without error, a
\* record equal to u.
C3_UserLoad ==
    /\ First("LoadUser") =>
         (Last.res = "err" /\ Last.rec = NoData)
    /\ After("StoreUser", "LoadUser") =>
         (Last.res = "ok" /\ Last.rec = Prev.data)

\* C4: MostRecentUserEmail() returns an email to its caller, and right after
\* a successful StoreUser(B, u) it returns B.
C4_MostRecentUser ==
    /\ Last.op = "MostRecentUserEmail" => Last.res = "ok"
    /\ (Prev.op = "StoreUser" /\ Prev.res = "ok"
        /\ Last.op = "MostRecentUserEmail") => Last.val = Prev.arg

\* C5: TryLock(x) with no lock entry for x returns a nil waiter and no
\* error; a second TryLock(x) before Unlock(x) returns a non-nil waiter;
\* the TryLock(x) after Unlock(x) returns a nil waiter again.
C5_TryLockUnlock ==
    /\ First("TryLock") =>
         (Last.res = "ok" /\ Last.val = "nil")
    /\ (After("TryLock", "TryLock") /\ Prev.val = "nil") =>
         (Last.res = "ok" /\ Last.val = "waiter")
    /\ After("Unlock", "TryLock") =>
         (Last.res = "ok" /\ Last.val = "nil")

C7_UnlockReleases ==
    /\ Last.op = "Unlock" => Last.res = "ok"
    /\ After("Unlock", "TryLock") => Last.val = "nil"

\* C8: Unlock(name) for a name without a lock entry returns no error and
\* leaves the adapter's state unchanged.
C8_UnlockNoEntry ==
    [][\A t \in Threads :
         Unlock(t) => (Last'.res = "ok" /\ Last'.err = Nil
                       /\ UNCHANGED adapterVars)]_vars

\* a required environment value is absent or empty
MissingConfig == \E n \in EnvNames : env[n] \in {Unset, ""}

\* C9: with one of B2_ACCOUNT_ID, B2_ACCOUNT_KEY, B2_BUCKET absent or empty
\* NewB2Storage returns an error and no adapter and never creates the
\* client; the client is created only when all three are non-empty.
C9_MissingConfig ==
    ctor.called =>
        /\ MissingConfig =>
             (~ctor.storage /\ ctor.err # Nil /\ netCalls = {})
        /\ "b2.NewClient" \in netCalls => ~MissingConfig

\* C9 witness: NewB2Storage has returned with B2_BUCKET absent, the other
\* two set
C9_Witness ==
    /\ ctor.called /\ ~ctor.storage
    /\ env[EnvNameAccountID] = "v" /\ env[EnvNameAccountKey] = "v"
    /\ env[EnvNameBucket] = Unset

\* C10: with no metadata.json in the bucket loadMetadata returns nil and
\* leaves the adapter loaded with an empty index, so that SiteExists(d) on a
\* fresh namespace returns (false, nil); unless the object store itself
\* fails, loadMetadata returns an error only for a document that is there
\* and does not decode.
C10_MissingIndexIsEmpty ==
    \A t \in Threads :
        (pc[t] = "seLoaded" /\ ~ServiceFailure(lmErr[t])) =>
            /\ bucket.doc = DocAbsent =>
                 (lmErr[t] = Nil /\ mdLoaded /\ md = ZeroMetadata)
            /\ lmErr[t] # Nil =>
                 (bucket.doc # DocAbsent /\ DecodeErr(bucket.doc) # Nil)


\* C11: when the index records an object id for d, SiteExists(d) looks the
\* object up by id; a not-found answer gives (false, nil), any other
\* failure of the object store gives an error.
C11_NotFoundIsFalse ==
    (Last.op = "SiteExists" /\ Calls(Last, "GetFileInfoByID") > 0) =>
        /\ (md.DomainNames[Last.arg] \notin bucket.files
            /\ ~ServiceFailure(Last.err)) =>
               (Last.res = "ok" /\ Last.val = "false")
        /\ ServiceFailure(Last.err) =>
               (Last.res = "err" /\ Last.val = "false")


\* the goroutines that are downloading or decoding the index document
Loading == {t \in Threads : pc[t] \in {"lmDownload", "lmDecode"}}

\* goroutine t leaves loadMetadata's Lock() in this step
PassesLock(t) == pc[t] = "lmLock" /\ pc'[t] # "lmLock"

\* C12: no two loadMetadata executions download the index document at the
\* same time, and once mdLoaded is true every loadMetadata call returns nil
\* without a call to the object store and without changing the index.
C12_LoadedOnce ==
    [][/\ Cardinality({t \in Threads :
                         pc'[t] \in {"lmDownload", "lmDecode"}}) <= 1
       /\ mdLoaded =>
            /\ md' = md
            /\ \A t \in Threads :
                 /\ pc'[t] \notin {"lmDownload", "lmDecode"}
                 /\ Calls([api |-> api'[t]], "DownloadFileByName")
                      <= Calls([api |-> api[t]], "DownloadFileByName")
                 /\ PassesLock(t) =>
                      (pc'[t] = "seLoaded" /\ lmErr'[t] = Nil
                       /\ api'[t] = api[t])]_vars

\* C12 witness: with the index loaded, a loadMetadata call has returned
\* nil without a download while another goroutine waits at Lock()
C12_Witness ==
    /\ mdLoaded
    /\ \E t, u \in Threads :
         /\ pc[t] = "seLoaded" /\ lmErr[t] = Nil /\ api[t] = <<>>
         /\ pc[u] = "lmLock"


\* the calls an operation can make on the client
ClientCalls == {"DownloadFileByName", "GetFileInfoByID", "UploadFile"}

\* C13: StoreSite uploads at least once and at most 5 times; it returns nil
\* as soon as an upload succeeds and an error once 5 uploads have failed;
\* no other operation repeats a call.
C13_UploadRetry ==
    /\ Last.op = "StoreSite" =>
         /\ Calls(Last, "UploadFile") \in 1..5
         /\ \/ Last.res = "ok"
            \/ /\ Last.res = "err" /\ Last.err.kind = "Error"
               /\ Calls(Last, "UploadFile") = 5
    /\ Last.op \notin {"StoreSite", "none"} =>
         \A c \in ClientCalls : Calls(Last, c) <= 1

ReadsIndex(t) == pc[t] = "seLoaded" /\ lmErr[t] = Nil

\* goroutine t is at a write of s.md (dec.Decode(&s.md))
WritesIndex(t) == pc[t] = "lmDecode"

\* C15: a goroutine reads or writes the index mapping only while it holds
\* mdMu, so that no goroutine is at an access of the mapping while another
\* is at a write of it.
C15_IndexUnderMutex ==
    \A t \in Threads :
        /\ (ReadsIndex(t) \/ WritesIndex(t)) => mdMu = t
        /\ WritesIndex(t) =>
             \A u \in Threads \ {t} : ~ReadsIndex(u) /\ ~WritesIndex(u)


\* e is an Error value for operation op whose chain ends in the error of
\* the client or of the decoder that caused it
TypedError(e, op) ==
    /\ e.kind = "Error" /\ e.op = op
    /\ RootCause(e).kind \in {"b2", "json", "errors.New"}

\* C16: every error a public operation returns, NewB2Storage included, is
\* an Error value naming the operation and holding the cause, so that a
\* not-found cause can be read off it.
C16_TypedErrors ==
    /\ ctor.err # Nil => TypedError(ctor.err, "NewB2Storage")
    /\ Last.err # Nil => TypedError(Last.err, Last.op)


\* C17: mdMu is held exactly by a goroutine that is between the Lock() of
\* loadMetadata and its return, whichever return it is; and with the calls
\* on the client returning, every call of SiteExists comes to its end for
\* as long as the process runs.
C17_NoDeadlock ==
    /\ [](\A t \in Threads : mdMu = t <=> t \in Loading)
    /\ \A t \in Threads : (pc[t] # "idle") ~> (pc[t] = "idle" \/ crashed)

\* C17 witness: a goroutine waits at Lock() while another one, holding
\* mdMu, is downloading
C17_Witness ==
    \E t, u \in Threads :
        pc[t] = "lmLock" /\ pc[u] = "lmDownload" /\ mdMu = u


\* goroutine t returns from loadMetadata in this step
ReturnsFromLoad(t) ==
    pc[t] \in {"lmLock", "lmDownload", "lmDecode"} /\ pc'[t] = "seLoaded"

\* C18: a loadMetadata call that fails leaves mdLoaded false, and the call
\* that then passes Lock() goes on to the download; mdLoaded becomes true
\* only in a call that downloaded the document and decoded it without
\* error; once true it stays true.
C18_FailedLoadNotCached ==
    [][/\ mdLoaded => mdLoaded'
       /\ \A t \in Threads :
            /\ (ReturnsFromLoad(t) /\ lmErr'[t] # Nil) => ~mdLoaded'
            /\ (~mdLoaded /\ PassesLock(t)) => pc'[t] = "lmDownload"
       /\ (~mdLoaded /\ mdLoaded') =>
            \E t \in Threads :
                /\ pc[t] = "lmDecode" /\ ReturnsFromLoad(t)
                /\ Calls([api |-> api[t]], "DownloadFileByName") = 1
                /\ DecodeErr(bucket.doc) = Nil /\ lmErr'[t] = Nil]_vars

\* C18 witness: after a SiteExists call that failed in loadMetadata, with
\* mdLoaded still false, the next call is downloading the document again
C18_Witness ==
    /\ ~mdLoaded
    /\ Last.op = "SiteExists" /\ Last.res = "err"
    /\ Last.err.err.kind = "Error" /\ Last.err.err.op = "loadMetadata"
    /\ \E t \in Threads : pc[t] = "lmDownload"


\* goroutine t takes the step of SiteExists that follows loadMetadata
AfterLoad(t) == pc[t] = "seLoaded" /\ pc'[t] # "seLoaded"

\* C19: with the index loaded and no entry for the domain, SiteExists
\* returns (false, nil), has issued no GetFileInfoByID and leaves the index
\* as it was; when loadMetadata failed, SiteExists returns (false, error)
\* and has issued no GetFileInfoByID either.
C19_NoEntryNoLookup ==
    [][\A t \in Threads :
         AfterLoad(t) =>
            /\ (lmErr[t] = Nil /\ call[t].arg \notin DOMAIN md.DomainNames) =>
                 /\ mdLoaded
                 /\ pc'[t] = "idle"
                 /\ hist'[2].op = "SiteExists" /\ hist'[2].arg = call[t].arg
                 /\ hist'[2].res = "ok" /\ hist'[2].val = "false"
                 /\ hist'[2].err = Nil
                 /\ Calls(hist'[2], "GetFileInfoByID") = 0
                 /\ md' = md /\ mdLoaded' = mdLoaded /\ bucket' = bucket
            /\ lmErr[t] # Nil =>
                 /\ pc'[t] = "idle"
                 /\ hist'[2].op = "SiteExists" /\ hist'[2].arg = call[t].arg
                 /\ hist'[2].res = "err" /\ hist'[2].val = "false"
                 /\ hist'[2].err # Nil
                 /\ Calls(hist'[2], "GetFileInfoByID") = 0]_vars

\* C19 witness: the index is loaded and holds an entry for one domain only,
\* and SiteExists of the other domain has returned (false, nil)
C19_Witness ==
    /\ mdLoaded /\ DOMAIN md.DomainNames # {}
    /\ Last.op = "SiteExists" /\ Last.arg \notin DOMAIN md.DomainNames
    /\ Last.res = "ok" /\ Last.val = "false"

====
